---- MODULE Spec2Model ----
(***************************************************************************)
(* The site-diary preprocessing server of src/main.py: the /run request    *)
(* (load_file, process_site_diary, save_temp_file) and the /download       *)
(* request (cleanup_old_files, download_file) over the scratch directory.  *)
(*                                                                         *)
(* Text is a sequence of one-character strings, so that lower-casing,      *)
(* numeric parsing and pattern extraction are computed, not assumed.       *)
(* Bytes are a sequence of byte units: an ASCII character, "C3A9" (the     *)
(* UTF-8 encoding of e-acute) or "E9" (its Latin-1 encoding, invalid as    *)
(* UTF-8).                                                                 *)
(***************************************************************************)
EXTENDS Integers, Sequences, FiniteSets, TLC

VARIABLES
    source,   \* the content behind the external URL a caller submits
    files,    \* TEMP_DIR: file name -> [content, mtime]
    clock,    \* time.time()
    ticks,    \* how many times the clock has advanced
    uuids,    \* how many uuids uuid4 has drawn
    history,  \* the /run requests served: [file_path, fetched, p, resp]
    written,  \* every save_temp_file call: file name -> [content, mtime]
    downloads,\* the two latest /download requests served alone: [filename, now, kind, body]
    reqs      \* the concurrent /download requests, by worker thread

vars == <<source, files, clock, ticks, uuids, history, written, downloads, reqs>>

(***************************************************************************)
(* Bounds of the model.                                                    *)
(***************************************************************************)
MaxRows == 3
MaxRuns == 2
MaxTicks == 2
NReq == 2

(***************************************************************************)
(* Program constants.                                                      *)
(***************************************************************************)
FILE_LIFETIME_SECONDS == 600

required_cols ==
    {"Ignore Entry", "Internal Use Only", "Description", "Category",
     "From", "Until", "Ring", "Shift", "Duration"}

KeyCols == {"From", "Until", "Ring", "Category", "Description"}

(***************************************************************************)
(* Text.                                                                   *)
(***************************************************************************)
Digits == <<"0", "1", "2", "3", "4", "5", "6", "7", "8", "9">>

IsDigit(c) == \E i \in 1..10 : Digits[i] = c

DigitVal(c) == (CHOOSE i \in 1..10 : Digits[i] = c) - 1

UpperCase == <<"A", "B", "C", "D", "E", "F", "G", "H", "I", "J", "K", "L", "M",
               "N", "O", "P", "Q", "R", "S", "T", "U", "V", "W", "X", "Y", "Z">>

LowerCase == <<"a", "b", "c", "d", "e", "f", "g", "h", "i", "j", "k", "l", "m",
               "n", "o", "p", "q", "r", "s", "t", "u", "v", "w", "x", "y", "z">>

LowerChar(c) ==
    IF \E i \in 1..26 : UpperCase[i] = c
    THEN LowerCase[CHOOSE i \in 1..26 : UpperCase[i] = c]
    ELSE c

\* str.lower()
StrLower(s) == [i \in 1..Len(s) |-> LowerChar(s[i])]

RECURSIVE IntVal(_)
\* int("...") of a run of decimal digits
IntVal(s) ==
    IF Len(s) = 0 THEN 0
    ELSE 10 * IntVal(SubSeq(s, 1, Len(s) - 1)) + DigitVal(s[Len(s)])

RECURSIVE IntText(_)
\* str(n) of a non-negative integer
IntText(n) ==
    IF n < 10 THEN <<Digits[n + 1]>>
    ELSE IntText(n \div 10) \o <<Digits[(n % 10) + 1]>>

StartsWith(s, p) == Len(s) >= Len(p) /\ SubSeq(s, 1, Len(p)) = p

\* the first maximal run of decimal digits of s, <<>> when s has none: (\d+)
FirstDigitRun(s) ==
    IF \A i \in 1..Len(s) : ~IsDigit(s[i]) THEN <<>>
    ELSE LET a == CHOOSE i \in 1..Len(s) :
                      IsDigit(s[i]) /\ \A j \in 1..(i - 1) : ~IsDigit(s[j])
             b == CHOOSE i \in a..Len(s) :
                      /\ \A j \in a..i : IsDigit(s[j])
                      /\ (i = Len(s) \/ ~IsDigit(s[i + 1]))
         IN  SubSeq(s, a, b)

(***************************************************************************)
(* Cells of a DataFrame: a string, a number, a boolean or NaN / None.      *)
(***************************************************************************)
NaN == [t |-> "nan", s |-> <<>>, n |-> 0]
None == [t |-> "none", s |-> <<>>, n |-> 0]
Str(s) == [t |-> "str", s |-> s, n |-> 0]
Num(n) == [t |-> "num", s |-> <<>>, n |-> n]
Bool(b) == [t |-> "bool", s |-> <<>>, n |-> IF b THEN 1 ELSE 0]

IsNull(cell) == cell.t \in {"nan", "none"}

T_True == <<"T", "r", "u", "e">>
T_False == <<"F", "a", "l", "s", "e">>

\* Series.astype(str) on one cell
AsStr(cell) ==
    CASE cell.t = "str" -> cell.s
      [] cell.t = "num" -> IntText(cell.n)
      [] cell.t = "bool" -> IF cell.n = 1 THEN T_True ELSE T_False
      [] cell.t = "none" -> <<"N", "o", "n", "e">>
      [] OTHER -> <<"n", "a", "n">>

(***************************************************************************)
(* Decoding of fetched bytes.                                              *)
(***************************************************************************)
Utf8Valid(bs) == \A i \in 1..Len(bs) : bs[i] # "E9"

Utf8Char(b) ==
    CASE b = "C3A9" -> "e_acute"
      [] b = "C383" -> "A_tilde"
      [] b = "C2A9" -> "copyright"
      [] OTHER -> b

DecodeUtf8(bs) == [i \in 1..Len(bs) |-> Utf8Char(bs[i])]

Latin1Chars(b) ==
    CASE b = "C3A9" -> <<"A_tilde", "copyright">>
      [] b = "C383" -> <<"A_tilde", "x83">>
      [] b = "C2A9" -> <<"A_circ", "copyright">>
      [] b = "E9" -> <<"e_acute">>
      [] OTHER -> <<b>>

RECURSIVE DecodeLatin1(_)
DecodeLatin1(bs) ==
    IF Len(bs) = 0 THEN <<>>
    ELSE Latin1Chars(Head(bs)) \o DecodeLatin1(Tail(bs))

\* str.encode() (UTF-8) of the text to_csv returns
EncodeChar(c) ==
    CASE c = "e_acute" -> "C3A9"
      [] c = "A_tilde" -> "C383"
      [] c = "copyright" -> "C2A9"
      [] OTHER -> c

EncodeUtf8(s) == [i \in 1..Len(s) |-> EncodeChar(s[i])]

(***************************************************************************)
(* Tables.  Fetched content is [status, kind, cols, rows]: the HTTP status *)
(* of the fetch, what the bytes are ("xlsx", "text" or "empty"), the       *)
(* header and the rows of byte cells.  A DataFrame is [cols, rows], each   *)
(* row [idx, c]: its index label and its cells by column.                  *)
(***************************************************************************)
Max(S) == CHOOSE m \in S : \A x \in S : x <= m

RECURSIVE SubSeqAt(_, _)
\* the elements of rs at the positions K, in order
SubSeqAt(rs, K) ==
    IF K = {} THEN <<>>
    ELSE LET m == Max(K) IN Append(SubSeqAt(rs, K \ {m}), rs[m])

EmptyDF == [cols |-> {}, rows |-> <<>>]

\* the parser's default NA values that the model's texts can spell
NaValues == {<<>>, <<"N", "A">>}

BoolTrueTexts == {<<"T", "r", "u", "e">>, <<"T", "R", "U", "E">>, <<"t", "r", "u", "e">>}
BoolFalseTexts ==
    {<<"F", "a", "l", "s", "e">>, <<"F", "A", "L", "S", "E">>, <<"f", "a", "l", "s", "e">>}

IsIntText(t) == Len(t) > 0 /\ \A i \in 1..Len(t) : IsDigit(t[i])

\* the dtype the parser infers for a column from all its cells
ColKind(texts) ==
    LET live == {t \in texts : t \notin NaValues}
    IN  IF live = {} THEN "nan"
        ELSE IF \A t \in live : IsIntText(t) THEN "num"
        ELSE IF \A t \in live : t \in BoolTrueTexts \cup BoolFalseTexts THEN "bool"
        ELSE "str"

ParseCell(kind, t) ==
    IF t \in NaValues THEN NaN
    ELSE CASE kind = "num" -> Num(IntVal(t))
           [] kind = "bool" -> Bool(t \in BoolTrueTexts)
           [] OTHER -> Str(t)

\* pandas' TextParser: header, NA detection, per-column type inference
ParseTable(cols, texts) ==
    LET kinds == [c \in cols |-> ColKind({texts[i][c] : i \in 1..Len(texts)})]
    IN  [cols |-> cols,
         rows |-> [i \in 1..Len(texts) |->
                     [idx |-> i - 1,
                      c |-> [c \in cols |-> ParseCell(kinds[c], texts[i][c])]]]]

DecodeRows(content, encoding) ==
    [i \in 1..Len(content.rows) |->
        [c \in content.cols |->
            IF encoding = "utf-8" THEN DecodeUtf8(content.rows[i][c])
            ELSE DecodeLatin1(content.rows[i][c])]]

\* pd.read_excel(io.BytesIO(content), engine="openpyxl")
read_excel(content) ==
    IF content.kind = "xlsx"
    THEN [ok |-> TRUE, df |-> ParseTable(content.cols, DecodeRows(content, "utf-8"))]
    ELSE [ok |-> FALSE, df |-> EmptyDF]

\* pd.read_csv(io.BytesIO(content), encoding=..., on_bad_lines="skip")
read_csv(content, encoding) ==
    IF content.kind # "text" THEN [ok |-> FALSE, df |-> EmptyDF]
    ELSE IF encoding = "utf-8"
    THEN IF \A i \in 1..Len(content.rows) : \A c \in content.cols :
                Utf8Valid(content.rows[i][c])
         THEN [ok |-> TRUE, df |-> ParseTable(content.cols, DecodeRows(content, "utf-8"))]
         ELSE [ok |-> FALSE, df |-> EmptyDF]
    ELSE [ok |-> TRUE, df |-> ParseTable(content.cols, DecodeRows(content, "ISO-8859-1"))]

(***************************************************************************)
(* Exceptions are values: [type, what, url, cols].                         *)
(***************************************************************************)
NoUrl == <<0, "">>
NoExc == [type |-> "", what |-> "", url |-> NoUrl, cols |-> {}]
HTTPError(url) == [type |-> "HTTPError", what |-> "fetch failed", url |-> url, cols |-> {}]
Unsupported(url) ==
    [type |-> "ValueError", what |-> "Unsupported or unreadable file format from",
     url |-> url, cols |-> {}]
MissingColumns(cs) ==
    [type |-> "ValueError", what |-> "Missing required columns", url |-> NoUrl, cols |-> cs]

\* a load_file that tries the Latin-1 decoder before the UTF-8 one
load_file_latin1_first(file_url, response) ==
    IF response.status # "ok"
    THEN [raised |-> TRUE, exc |-> HTTPError(file_url), df |-> EmptyDF, log |-> <<>>]
    ELSE LET x == read_excel(response)
             u == read_csv(response, "utf-8")
             l == read_csv(response, "ISO-8859-1")
         IN  IF x.ok
             THEN [raised |-> FALSE, exc |-> NoExc, df |-> x.df, log |-> <<"excel ok">>]
             ELSE IF l.ok
             THEN [raised |-> FALSE, exc |-> NoExc, df |-> l.df,
                   log |-> <<"excel failed", "ISO-8859-1 ok">>]
             ELSE IF u.ok
             THEN [raised |-> FALSE, exc |-> NoExc, df |-> u.df,
                   log |-> <<"excel failed", "ISO-8859-1 failed", "utf-8 ok">>]
             ELSE [raised |-> TRUE, exc |-> Unsupported(file_url), df |-> EmptyDF,
                   log |-> <<"excel failed", "ISO-8859-1 failed", "utf-8 failed">>]

\* load_file: [raised, exc, df, log]; log is what it prints about the decoders
load_file(file_url, response) ==
    IF response.status # "ok"
    THEN [raised |-> TRUE, exc |-> HTTPError(file_url), df |-> EmptyDF, log |-> <<>>]
    ELSE LET x == read_excel(response)
             u == read_csv(response, "utf-8")
             l == read_csv(response, "ISO-8859-1")
         IN  IF x.ok
             THEN [raised |-> FALSE, exc |-> NoExc, df |-> x.df, log |-> <<"excel ok">>]
             ELSE IF u.ok
             THEN [raised |-> FALSE, exc |-> NoExc, df |-> u.df,
                   log |-> <<"excel failed", "utf-8 ok">>]
             ELSE IF l.ok
             THEN [raised |-> FALSE, exc |-> NoExc, df |-> l.df,
                   log |-> <<"excel failed", "utf-8 failed", "ISO-8859-1 ok">>]
             ELSE [raised |-> TRUE, exc |-> Unsupported(file_url), df |-> EmptyDF,
                   log |-> <<"excel failed", "utf-8 failed", "ISO-8859-1 failed">>]

(***************************************************************************)
(* process_site_diary, stage by stage.                                     *)
(***************************************************************************)
TruthyTexts == {<<"t", "r", "u", "e">>, <<"1">>, <<"y", "e", "s">>}

\* df[col] = df[col].astype(str).str.lower().isin(["true", "1", "yes"])
flag_to_bool(cell) == Bool(StrLower(AsStr(cell)) \in TruthyTexts)

convert_flags(df) ==
    [cols |-> df.cols,
     rows |-> [i \in 1..Len(df.rows) |->
                 [idx |-> df.rows[i].idx,
                  c |-> [c \in df.cols |->
                           IF c \in {"Ignore Entry", "Internal Use Only"}
                           THEN flag_to_bool(df.rows[i].c[c])
                           ELSE df.rows[i].c[c]]]]]

\* df[(df["Ignore Entry"] != True) & (df["Internal Use Only"] != True)]
drop_flagged(df) ==
    [cols |-> df.cols,
     rows |-> SubSeqAt(df.rows,
                       {i \in 1..Len(df.rows) :
                            /\ df.rows[i].c["Ignore Entry"] # Bool(TRUE)
                            /\ df.rows[i].c["Internal Use Only"] # Bool(TRUE)})]

\* df.dropna(subset=[...])
dropna(df, subset) ==
    [cols |-> df.cols,
     rows |-> SubSeqAt(df.rows,
                       {i \in 1..Len(df.rows) :
                            \A c \in subset : ~IsNull(df.rows[i].c[c])})]

KeyOf(row, subset) == [c \in subset |-> row.c[c]]

\* a drop_duplicates that keeps the last record of each key, not the first
drop_duplicates_keep_last(df, subset) ==
    [cols |-> df.cols,
     rows |-> SubSeqAt(df.rows,
                       {i \in 1..Len(df.rows) :
                            \A j \in (i + 1)..Len(df.rows) :
                                KeyOf(df.rows[j], subset) # KeyOf(df.rows[i], subset)})]

\* df.drop_duplicates(subset=[...]): keep="first"
drop_duplicates(df, subset) ==
    [cols |-> df.cols,
     rows |-> SubSeqAt(df.rows,
                       {i \in 1..Len(df.rows) :
                            \A j \in 1..(i - 1) :
                                KeyOf(df.rows[j], subset) # KeyOf(df.rows[i], subset)})]

\* a complement joined on the composite key only, not on the whole row
merge_left_only_on_key(left, right) ==
    LET matched == {KeyOf(right.rows[j], KeyCols) : j \in 1..Len(right.rows)}
        kept == SubSeqAt(left.rows,
                         {i \in 1..Len(left.rows) :
                              KeyOf(left.rows[i], KeyCols) \notin matched})
    IN  [cols |-> left.cols,
         rows |-> [i \in 1..Len(kept) |-> [idx |-> i - 1, c |-> kept[i].c]]]

\* pd.merge(left, right, how="outer", indicator=True)
\*   .query('_merge == "left_only"').drop(columns=["_merge"])
\* The join is on every common column, that is on the whole row; right is a
\* part of left, so there is no right_only row.  The result has a fresh index;
\* the key order an outer join sorts its rows into is not modelled.
merge_left_only(left, right) ==
    LET matched == {right.rows[j].c : j \in 1..Len(right.rows)}
        kept == SubSeqAt(left.rows,
                         {i \in 1..Len(left.rows) : left.rows[i].c \notin matched})
    IN  [cols |-> left.cols,
         rows |-> [i \in 1..Len(kept) |-> [idx |-> i - 1, c |-> kept[i].c]]]

\* df["Category"].value_counts(): the count of each distinct non-null category
value_counts(df, col) ==
    LET vals == {df.rows[i].c[col] : i \in 1..Len(df.rows)} \ {NaN, None}
    IN  [v \in vals |-> Cardinality({i \in 1..Len(df.rows) : df.rows[i].c[col] = v})]

\* a retained list computed against the threshold 1
valid_classes_at_least_one(class_counts) ==
    {v \in DOMAIN class_counts : class_counts[v] >= 1}

\* class_counts[class_counts >= 2].index.tolist()
valid_classes_of(class_counts) == {v \in DOMAIN class_counts : class_counts[v] >= 2}

\* class_counts[class_counts < 2].index.tolist()
filtered_out_classes_of(class_counts) == {v \in DOMAIN class_counts : class_counts[v] < 2}

\* df[df["Category"].isin(valid_classes)]
isin_filter(df, col, values) ==
    [cols |-> df.cols,
     rows |-> SubSeqAt(df.rows, {i \in 1..Len(df.rows) : df.rows[i].c[col] \in values})]

T_Day == <<"D", "a", "y">>
T_Night == <<"N", "i", "g", "h", "t">>

\* df["Shift"].astype(str).str.extract(r"^(Day|Night)", expand=False)
shift_type(cell) ==
    LET s == AsStr(cell)
    IN  IF StartsWith(s, T_Day) THEN Str(T_Day)
        ELSE IF StartsWith(s, T_Night) THEN Str(T_Night)
        ELSE NaN

\* pd.to_numeric(df["Duration"].astype(str).str.extract(r"(\d+)")[0], errors="coerce")
duration_min(cell) ==
    LET run == FirstDigitRun(AsStr(cell))
    IN  IF run = <<>> THEN NaN ELSE Num(IntVal(run))

derive_fields(df) ==
    [cols |-> df.cols \cup {"Shift_Type", "Duration_min"},
     rows |-> [i \in 1..Len(df.rows) |->
                 [idx |-> df.rows[i].idx,
                  c |-> [c \in df.cols \cup {"Shift_Type", "Duration_min"} |->
                           CASE c = "Shift_Type" -> shift_type(df.rows[i].c["Shift"])
                             [] c = "Duration_min" -> duration_min(df.rows[i].c["Duration"])
                             [] OTHER -> df.rows[i].c[c]]]]]

\* df.replace({np.nan: None, np.inf: None, -np.inf: None})
replace_nonfinite(df) ==
    [cols |-> df.cols,
     rows |-> [i \in 1..Len(df.rows) |->
                 [idx |-> df.rows[i].idx,
                  c |-> [c \in df.cols |->
                           IF df.rows[i].c[c] = NaN THEN None ELSE df.rows[i].c[c]]]]]

\* one cell as to_csv writes it
csv_text(cell) ==
    CASE cell.t = "str" -> cell.s
      [] cell.t = "num" -> IntText(cell.n)
      [] cell.t = "bool" -> IF cell.n = 1 THEN T_True ELSE T_False
      [] OTHER -> <<>>

\* df.to_csv(index=False, encoding="utf-8-sig").encode(): to_csv returns a str
\* (the encoding argument applies to a file only), encode() makes it UTF-8
to_csv_bytes(df) ==
    [status |-> "ok", kind |-> "text", cols |-> df.cols,
     rows |-> [i \in 1..Len(df.rows) |->
                 [c \in df.cols |-> EncodeUtf8(csv_text(df.rows[i].c[c]))]]]

\* df.to_dict(orient="records")
to_dict(df) == [i \in 1..Len(df.rows) |-> df.rows[i].c]

(***************************************************************************)
(* Artifacts.  A file name is <<uuid, suffix>>; uuid4 is collision-free,   *)
(* modelled by a counter of the uuids drawn so far.                        *)
(***************************************************************************)
ExtUrl == <<0, "ext">>
DeadUrl == <<0, "dead">>

NoContent == [status |-> "ok", kind |-> "empty", cols |-> {}, rows |-> <<>>]

\* save_temp_file: the name it generates for the n-th uuid
temp_name(n, suffix) == <<n, suffix>>

\* save_temp_file: the scratch directory after writing content at time now
save_temp_file(fs, fname, content, now) ==
    [f \in DOMAIN fs \cup {fname} |->
        IF f = fname THEN [content |-> content, mtime |-> now] ELSE fs[f]]

EmptyResult ==
    [cleaned_fname |-> NoUrl, filtered_fname |-> NoUrl,
     num_cleaned_rows |-> 0, num_filtered_rows |-> 0,
     categories_retained |-> {}, categories_removed |-> {},
     cleaned_df_dict |-> <<>>, filtered_out_df_dict |-> <<>>]

\* process_site_diary(file_url): its local variables at the point it returns or
\* raises; writes are the save_temp_file calls it made, n the uuids drawn before
process_site_diary(file_url, response, n) ==
    LET ld == load_file(file_url, response)
        missing_cols == {c \in required_cols : c \notin ld.df.cols}
        normalized == dropna(drop_flagged(convert_flags(ld.df)), {"Description", "Category"})
        df_before_dedup == normalized
        deduped == drop_duplicates(normalized, KeyCols)
        filtered_out_df == merge_left_only(df_before_dedup, deduped)
        class_counts == value_counts(deduped, "Category")
        valid_classes == valid_classes_of(class_counts)
        filtered_out_classes == filtered_out_classes_of(class_counts)
        cleaned == replace_nonfinite(derive_fields(isin_filter(deduped, "Category", valid_classes)))
        rejected == replace_nonfinite(filtered_out_df)
        cleaned_fname == temp_name(n + 1, "cleaned")
        filtered_fname == temp_name(n + 2, "filtered")
        failed(e) ==
            [raised |-> TRUE, exc |-> e, log |-> ld.log, loaded |-> ld.df,
             normalized |-> EmptyDF, deduped |-> EmptyDF, filtered_out_df |-> EmptyDF,
             cleaned |-> EmptyDF, writes |-> <<>>, result |-> EmptyResult]
    IN  IF ld.raised THEN failed(ld.exc)
        ELSE IF missing_cols # {} THEN failed(MissingColumns(missing_cols))
        ELSE [raised |-> FALSE, exc |-> NoExc, log |-> ld.log, loaded |-> ld.df,
              normalized |-> normalized, deduped |-> deduped,
              filtered_out_df |-> filtered_out_df, cleaned |-> cleaned,
              writes |-> <<[fname |-> cleaned_fname, content |-> to_csv_bytes(cleaned)],
                           [fname |-> filtered_fname, content |-> to_csv_bytes(rejected)]>>,
              result |-> [cleaned_fname |-> cleaned_fname,
                          filtered_fname |-> filtered_fname,
                          num_cleaned_rows |-> Len(cleaned.rows),
                          num_filtered_rows |-> Len(rejected.rows),
                          categories_retained |-> valid_classes,
                          categories_removed |-> filtered_out_classes,
                          cleaned_df_dict |-> to_dict(cleaned),
                          filtered_out_df_dict |-> to_dict(rejected)]]

\* clean_json: a non-finite float becomes None, through lists and dicts
clean_json_cell(cell) == IF cell = NaN THEN None ELSE cell

clean_json_records(records) ==
    [i \in 1..Len(records) |-> [c \in DOMAIN records[i] |-> clean_json_cell(records[i][c])]]

\* an "except ValueError": a failed fetch escapes the handler
caught_value_error_only(exc) == exc.type = "ValueError"

\* which exceptions run_tool's "except Exception" catches: all the model raises
caught(exc) == exc.type \in {"HTTPError", "ValueError"}

\* run_tool: the JSON body it returns, or a crash when the exception escapes
run_tool(file_path, p) ==
    IF ~p.raised
    THEN [kind |-> "ok", file_path |-> file_path, exception |-> NoExc,
          result |-> [p.result EXCEPT
                        !.cleaned_df_dict = clean_json_records(@),
                        !.filtered_out_df_dict = clean_json_records(@)]]
    ELSE IF caught(p.exc)
    THEN [kind |-> "error", file_path |-> file_path, exception |-> p.exc,
          result |-> EmptyResult]
    ELSE [kind |-> "crash", file_path |-> file_path, exception |-> p.exc,
          result |-> EmptyResult]

(***************************************************************************)
(* /download/{filename}, as one request running alone.                     *)
(***************************************************************************)
\* a sweep that deletes at the time-to-live, not after it
expired_at_lifetime(fs, f, now) == now - fs[f].mtime >= FILE_LIFETIME_SECONDS

\* now - os.path.getmtime(fpath) > FILE_LIFETIME_SECONDS
expired(fs, f, now) == now - fs[f].mtime > FILE_LIFETIME_SECONDS

\* cleanup_old_files: the scratch directory after the sweep at time now
cleanup_old_files(fs, now) ==
    [f \in {g \in DOMAIN fs : ~expired(fs, g, now)} |-> fs[f]]

NotFoundBody ==
    [status |-> "ok", kind |-> "text", cols |-> {"{error:File not found}"}, rows |-> <<>>]

\* download_file: the directory it leaves and the response it returns
download_file(fs, now, filename) ==
    LET swept == cleanup_old_files(fs, now)
    IN  IF filename \in DOMAIN swept
        THEN [files |-> swept, kind |-> "file", body |-> swept[filename].content]
        ELSE [files |-> swept, kind |-> "notfound", body |-> NotFoundBody]

(***************************************************************************)
(* The inputs: a base row and the families of rows that vary it.           *)
(***************************************************************************)
BaseRow ==
    [c \in required_cols |->
        CASE c = "Ignore Entry" -> <<"n", "o">>
          [] c = "Internal Use Only" -> <<"n", "o">>
          [] c = "Description" -> <<"d">>
          [] c = "Category" -> <<"A">>
          [] c = "From" -> <<"8">>
          [] c = "Until" -> <<"9">>
          [] c = "Ring" -> <<"r">>
          [] c = "Shift" -> <<"D", "a", "y">>
          [] OTHER -> <<"4", "5", "m">>]

\* rows that differ in the key (Category, Description) and outside it (Shift)
DedupRows ==
    {[BaseRow EXCEPT !["Category"] = cat, !["Description"] = d, !["Shift"] = sh] :
        cat \in {<<"A">>, <<"B">>}, d \in {<<"d">>, <<"e">>},
        sh \in {<<"D", "a", "y">>, <<"N", "i", "g", "h", "t">>}}

\* rows that differ in the text of the two flags
FlagRows ==
    {[BaseRow EXCEPT !["Ignore Entry"] = ig, !["Internal Use Only"] = iu] :
        ig \in {<<"Y", "e", "s">>, <<"n", "o">>, <<"T", "R", "U", "E">>},
        iu \in {<<"1">>, <<"0">>}}

\* rows whose Description or Category is missing or blank
PresenceRows ==
    {[BaseRow EXCEPT !["Description"] = d, !["Category"] = cat] :
        d \in {<<"d">>, <<" ">>, <<>>}, cat \in {<<"A">>, <<>>}}

\* rows whose Ring reads as a number or as text, flagged or not
RoundRows ==
    {[BaseRow EXCEPT !["Ring"] = rg] : rg \in {<<"1">>, <<"0", "1">>, <<"x">>}}
        \cup {[BaseRow EXCEPT !["Ring"] = <<"x">>, !["Ignore Entry"] = <<"y", "e", "s">>]}

\* rows with a non-ASCII Description, encoded as UTF-8 or as Latin-1
LoadRows ==
    {[BaseRow EXCEPT !["Description"] = d] : d \in {<<"d">>, <<"C3A9">>, <<"E9">>}}

Tables(rows, n) == UNION {[1..k -> rows] : k \in 0..n}

TextSources(rows, n) ==
    {[status |-> "ok", kind |-> "text", cols |-> required_cols, rows |-> t] :
        t \in Tables(rows, n)}

ColumnSets ==
    {required_cols, required_cols \ {"Shift"}, required_cols \ {"Category", "Ring"}}

LoadSources ==
    {NoContent} \cup
    {src \in
        {[status |-> st, kind |-> k, cols |-> cs,
          rows |-> [i \in 1..Len(t) |-> [c \in cs |-> t[i][c]]]] :
            st \in {"ok", "fail"}, k \in {"xlsx", "text"}, cs \in ColumnSets,
            t \in Tables(LoadRows, MaxRows - 2)} :
        src.kind = "xlsx" =>
            \A i \in 1..Len(src.rows) : \A c \in src.cols : Utf8Valid(src.rows[i][c])}

PipeSources ==
    TextSources(DedupRows, MaxRows) \cup TextSources(RoundRows, MaxRows)
        \cup TextSources(FlagRows, MaxRows - 1) \cup TextSources(PresenceRows, MaxRows - 1)

(***************************************************************************)
(* The state machine.                                                      *)
(***************************************************************************)
EmptyDir == [f \in {} |-> [content |-> NoContent, mtime |-> 0]]

IdleReq ==
    [pc |-> "idle", filename |-> NoUrl, now |-> 0, todo |-> {}, cur |-> NoUrl,
     outcome |-> "", body |-> NoContent]

InitRest ==
    /\ files = EmptyDir
    /\ clock = 0
    /\ ticks = 0
    /\ uuids = 0
    /\ history = <<>>
    /\ written = EmptyDir
    /\ downloads = <<>>
    /\ reqs = [p \in 1..NReq |-> IdleReq]

Init == source \in PipeSources /\ InitRest

\* requests.get(file_url): the external source, or this server's own /download
fetch(file_url, fs, now) ==
    IF file_url = ExtUrl
    THEN [files |-> fs, body |-> source]
    ELSE IF file_url = DeadUrl
    THEN [files |-> fs, body |-> [NoContent EXCEPT !.status = "fail"]]
    ELSE LET d == download_file(fs, now, file_url) IN [files |-> d.files, body |-> d.body]

\* POST /run with file_path: run_tool, process_site_diary and its two saves
Run(file_path) ==
    /\ Len(history) < MaxRuns
    /\ \E got \in {fetch(file_path, files, clock)} :
       \E p \in {process_site_diary(file_path, got.body, uuids)} :
       LET resp == run_tool(file_path, p)
           saved1 == IF Len(p.writes) >= 1
                     THEN save_temp_file(got.files, p.writes[1].fname, p.writes[1].content, clock)
                     ELSE got.files
           saved2 == IF Len(p.writes) >= 2
                     THEN save_temp_file(saved1, p.writes[2].fname, p.writes[2].content, clock)
                     ELSE saved1
           log1 == IF Len(p.writes) >= 1
                   THEN save_temp_file(written, p.writes[1].fname, p.writes[1].content, clock)
                   ELSE written
           log2 == IF Len(p.writes) >= 2
                   THEN save_temp_file(log1, p.writes[2].fname, p.writes[2].content, clock)
                   ELSE log1
       IN  /\ files' = saved2
           /\ written' = log2
           /\ uuids' = uuids + Len(p.writes)
           /\ history' = Append(history,
                  [file_path |-> file_path, fetched |-> got.body, p |-> p, resp |-> resp])
    /\ UNCHANGED <<source, clock, ticks, downloads, reqs>>

\* the URLs a caller submits: the external one, or a cleaned artifact's link
RunUrls == {ExtUrl} \cup {f \in DOMAIN written : f[2] = "cleaned"}

\* time passes
Tick ==
    /\ ticks < MaxTicks
    /\ \E d \in {1, FILE_LIFETIME_SECONDS} : clock' = clock + d
    /\ ticks' = ticks + 1
    /\ UNCHANGED <<source, files, uuids, history, written, downloads, reqs>>

\* the log keeps the latest request and the one before it
Latest(log, entry) == IF Len(log) < 2 THEN Append(log, entry) ELSE <<log[2], entry>>

\* GET /download/{filename}, running alone
Download ==
    /\ \E filename \in DOMAIN written :
       \E d \in {download_file(files, clock, filename)} :
          /\ files' = d.files
          /\ downloads' = Latest(downloads,
                 [filename |-> filename, now |-> clock, kind |-> d.kind, body |-> d.body])
    /\ UNCHANGED <<source, clock, ticks, uuids, history, written, reqs>>

(***************************************************************************)
(* Spec: /run requests on a diary table and on the cleaned artifacts.      *)
(***************************************************************************)
Next == \E file_path \in RunUrls : Run(file_path)

Spec == Init /\ [][Next]_vars

(***************************************************************************)
(* SpecLoad: /run requests on sources of every format, on a dead link and  *)
(* on the cleaned artifacts.                                               *)
(***************************************************************************)
InitLoad == source \in LoadSources /\ InitRest

NextLoad == \E file_path \in RunUrls \cup {DeadUrl} : Run(file_path)

SpecLoad == InitLoad /\ [][NextLoad]_vars

(***************************************************************************)
(* SpecSeq: /run and /download requests served one at a time while time    *)
(* passes.                                                                 *)
(***************************************************************************)
\* a diary of one entry, and one of two entries of the same category
SmallSources ==
    {[status |-> "ok", kind |-> "text", cols |-> required_cols, rows |-> t] :
        t \in {<<BaseRow>>, <<BaseRow, [BaseRow EXCEPT !["Description"] = <<"e">>]>>}}

InitSeq == source \in SmallSources /\ InitRest

NextSeq ==
    \/ Run(ExtUrl)
    \/ Tick
    \/ Download

SpecSeq == InitSeq /\ [][NextSeq]_vars

(***************************************************************************)
(* SpecConc: /download requests served by concurrent worker threads, each  *)
(* system call of cleanup_old_files and download_file a step of its own.   *)
(***************************************************************************)
\* now = time.time(); os.listdir(TEMP_DIR)
DlBegin(p) ==
    /\ reqs[p].pc = "idle"
    /\ \E filename \in DOMAIN written :
          reqs' = [reqs EXCEPT ![p] =
                     [IdleReq EXCEPT !.pc = "scan", !.filename = filename,
                                     !.now = clock, !.todo = DOMAIN files]]
    /\ UNCHANGED <<source, files, clock, ticks, uuids, history, written, downloads>>

\* the next fname of the listing: os.path.isfile(fpath)
DlIsFile(p) ==
    /\ reqs[p].pc = "scan"
    /\ \E f \in reqs[p].todo :
          reqs' = [reqs EXCEPT ![p].todo = @ \ {f},
                               ![p].cur = f,
                               ![p].pc = IF f \in DOMAIN files THEN "getmtime" ELSE "scan"]
    /\ UNCHANGED <<source, files, clock, ticks, uuids, history, written, downloads>>

\* os.path.getmtime(fpath), which raises when the file is gone, and the age test
DlGetMtime(p) ==
    /\ reqs[p].pc = "getmtime"
    /\ reqs' = [reqs EXCEPT
                  ![p].pc = IF reqs[p].cur \notin DOMAIN files THEN "done"
                            ELSE IF expired(files, reqs[p].cur, reqs[p].now) THEN "remove"
                            ELSE "scan",
                  ![p].outcome = IF reqs[p].cur \notin DOMAIN files THEN "error" ELSE @]
    /\ UNCHANGED <<source, files, clock, ticks, uuids, history, written, downloads>>

\* os.remove(fpath), which raises when the file is gone
DlRemove(p) ==
    /\ reqs[p].pc = "remove"
    /\ IF reqs[p].cur \in DOMAIN files
       THEN /\ files' = [f \in DOMAIN files \ {reqs[p].cur} |-> files[f]]
            /\ reqs' = [reqs EXCEPT ![p].pc = "scan"]
       ELSE /\ files' = files
            /\ reqs' = [reqs EXCEPT ![p].pc = "done", ![p].outcome = "error"]
    /\ UNCHANGED <<source, clock, ticks, uuids, history, written, downloads>>

\* the listing is done: os.path.exists(path)
DlExists(p) ==
    /\ reqs[p].pc = "scan"
    /\ reqs[p].todo = {}
    /\ reqs' = [reqs EXCEPT
                  ![p].pc = IF reqs[p].filename \in DOMAIN files THEN "serve" ELSE "done",
                  ![p].outcome = IF reqs[p].filename \in DOMAIN files THEN @ ELSE "notfound"]
    /\ UNCHANGED <<source, files, clock, ticks, uuids, history, written, downloads>>

\* the FileResponse is sent: the file is opened and read, or found gone
DlServe(p) ==
    /\ reqs[p].pc = "serve"
    /\ reqs' = [reqs EXCEPT
                  ![p].pc = "done",
                  ![p].outcome = IF reqs[p].filename \in DOMAIN files THEN "file" ELSE "error",
                  ![p].body = IF reqs[p].filename \in DOMAIN files
                              THEN files[reqs[p].filename].content ELSE @]
    /\ UNCHANGED <<source, files, clock, ticks, uuids, history, written, downloads>>

\* one /run request writes the artifacts the downloads contend for
InitConc == source \in SmallSources /\ InitRest

NextConc ==
    \/ Len(history) = 0 /\ Run(ExtUrl)
    \/ Tick
    \/ \E p \in 1..NReq :
          \/ DlBegin(p)
          \/ DlIsFile(p)
          \/ DlGetMtime(p)
          \/ DlRemove(p)
          \/ DlExists(p)
          \/ DlServe(p)

SpecConc == InitConc /\ [][NextConc]_vars

(***************************************************************************)
(* Properties of the pipeline, read off the local variables of every /run  *)
(* request served (history).                                               *)
(***************************************************************************)
Contents(df) == [i \in 1..Len(df.rows) |-> df.rows[i].c]

Elems(seq) == {seq[i] : i \in 1..Len(seq)}

CountIn(seq, x) == Cardinality({i \in 1..Len(seq) : seq[i] = x})

Labels(df) == {df.rows[i].idx : i \in 1..Len(df.rows)}

Completed == {k \in 1..Len(history) : ~history[k].p.raised}

\* C1: the rejected set of the deduplication step is the multiset difference
\* between the normalizer's output and the deduplicated accepted set: every
\* record, counted with its multiplicity, is in the normalizer's output as often
\* as in accepted plus rejected (full-row duplicates of the survivor included).
C1_RejectedIsMultisetDifference ==
    \A k \in Completed :
        LET norm == Contents(history[k].p.normalized)
            acc == Contents(history[k].p.deduped)
            rej == Contents(history[k].p.filtered_out_df)
        IN  \A x \in Elems(norm) \cup Elems(acc) \cup Elems(rej) :
                CountIn(norm, x) = CountIn(acc, x) + CountIn(rej, x)

\* C2: after deduplication no two accepted records share the composite key, every
\* accepted record is a record of the normalizer's output, unchanged, and the
\* survivor of each key is the record of that key that comes first in input
\* order, whatever its other columns hold.
C2_UniqueKeyFirstSurvives ==
    \A k \in Completed :
        LET norm == history[k].p.normalized.rows
            acc == history[k].p.deduped.rows
        IN  /\ \A i, j \in 1..Len(acc) :
                   i # j => KeyOf(acc[i], KeyCols) # KeyOf(acc[j], KeyCols)
            /\ \A i \in 1..Len(acc) : \E m \in 1..Len(norm) : norm[m] = acc[i]
            /\ \A i, j \in 1..Len(acc) : i < j => acc[i].idx < acc[j].idx
            /\ \A m \in 1..Len(norm) :
                   \E i \in 1..Len(acc) :
                       /\ KeyOf(acc[i], KeyCols) = KeyOf(norm[m], KeyCols)
                       /\ acc[i].idx <= norm[m].idx
                       /\ \A n \in 1..Len(norm) :
                              KeyOf(norm[n], KeyCols) = KeyOf(norm[m], KeyCols)
                                  => acc[i].idx <= norm[n].idx

\* a request whose normalizer output holds two records of one key that differ in
\* Shift, the later of which has the other columns the survivor would not have
C2_Witness ==
    \E k \in Completed :
        LET norm == history[k].p.normalized.rows
        IN  \E m, n \in 1..Len(norm) :
                /\ m < n
                /\ KeyOf(norm[m], KeyCols) = KeyOf(norm[n], KeyCols)
                /\ norm[m].c["Shift"] # norm[n].c["Shift"]
                /\ Len(history[k].p.deduped.rows) < Len(norm)

\* C3: of two records of the normalizer's output with the same composite key that
\* differ in Shift, the earlier being the first record of that key, exactly one
\* survives deduplication (the earlier) and the other is in the rejected set with
\* every column, Shift included, as it was, as often as it occurs in the output.
C3_DroppedRecordKeptIntact ==
    \A k \in Completed :
        LET norm == history[k].p.normalized.rows
            acc == history[k].p.deduped
            rej == Contents(history[k].p.filtered_out_df)
        IN  \A m, n \in 1..Len(norm) :
                ( /\ m < n
                  /\ KeyOf(norm[m], KeyCols) = KeyOf(norm[n], KeyCols)
                  /\ norm[m].c["Shift"] # norm[n].c["Shift"]
                  /\ \A i \in 1..(m - 1) :
                         KeyOf(norm[i], KeyCols) # KeyOf(norm[m], KeyCols) )
                => /\ norm[m].idx \in Labels(acc)
                   /\ norm[n].idx \notin Labels(acc)
                   /\ CountIn(rej, norm[n].c) >= 1
                   /\ CountIn(rej, norm[n].c)
                          = CountIn(Contents(history[k].p.normalized), norm[n].c)

C3_Witness ==
    \E k \in Completed :
        LET norm == history[k].p.normalized.rows
            rej == Contents(history[k].p.filtered_out_df)
        IN  \E m, n \in 1..Len(norm) :
                /\ m < n
                /\ KeyOf(norm[m], KeyCols) = KeyOf(norm[n], KeyCols)
                /\ norm[m].c["Shift"] = Str(T_Day)
                /\ norm[n].c["Shift"] = Str(T_Night)
                /\ \A i \in 1..(m - 1) :
                       KeyOf(norm[i], KeyCols) # KeyOf(norm[m], KeyCols)
                /\ \E i \in 1..Len(rej) : rej[i] = norm[n].c

\* C4: with the single threshold 2, every distinct Category of the pruning step's
\* input is in exactly one of categories_retained (count >= 2) and
\* categories_removed (count < 2); the accepted set keeps exactly the rows of the
\* retained categories, so each category in it occurs at least twice in it and
\* no removed category occurs in it.
C4_CategoriesPartitioned ==
    \A k \in Completed :
        LET inp == history[k].p.deduped.rows
            out == history[k].p.cleaned.rows
            retained == history[k].resp.result.categories_retained
            removed == history[k].resp.result.categories_removed
            cats == {inp[i].c["Category"] : i \in 1..Len(inp)}
            count(v) == Cardinality({i \in 1..Len(inp) : inp[i].c["Category"] = v})
            kept(v) == Cardinality({i \in 1..Len(out) : out[i].c["Category"] = v})
        IN  /\ retained \cup removed = cats
            /\ retained \cap removed = {}
            /\ \A v \in cats : (v \in retained) = (count(v) >= 2)
            /\ \A v \in cats : (v \in removed) = (count(v) < 2)
            /\ {out[i].idx : i \in 1..Len(out)}
                   = {inp[i].idx : i \in {j \in 1..Len(inp) : inp[j].c["Category"] \in retained}}
            /\ \A i \in 1..Len(out) : kept(out[i].c["Category"]) >= 2
            /\ \A i \in 1..Len(out) : out[i].c["Category"] \notin removed

\* a request that retains one category and removes another
C4_Witness ==
    \E k \in Completed :
        /\ history[k].resp.result.categories_retained # {}
        /\ history[k].resp.result.categories_removed # {}
        /\ history[k].resp.result.num_cleaned_rows >= 2
        /\ Len(history[k].p.deduped.rows) > history[k].resp.result.num_cleaned_rows

IsBlank(s) == \A i \in 1..Len(s) : s[i] \in {" ", "\t"}

\* present: non-null and non-empty after whitespace normalization
Present(cell) == ~IsNull(cell) /\ (cell.t = "str" => ~IsBlank(cell.s))

\* C5: every record that survives the normalizer has both flags false, a flag
\* being true exactly when its text is, case-insensitively, "true", "1" or "yes";
\* has a Description and a Category that are present; and the survivors keep
\* their relative input order.
C5_NormalizerSurvivors ==
    \A k \in Completed :
        LET inp == history[k].p.loaded.rows
            norm == history[k].p.normalized.rows
        IN  /\ \A i \in 1..Len(norm) :
                   /\ norm[i].c["Ignore Entry"] = Bool(FALSE)
                   /\ norm[i].c["Internal Use Only"] = Bool(FALSE)
                   /\ Present(norm[i].c["Description"])
                   /\ Present(norm[i].c["Category"])
                   /\ \E m \in 1..Len(inp) :
                          /\ inp[m].idx = norm[i].idx
                          /\ \A c \in {"Ignore Entry", "Internal Use Only"} :
                                 StrLower(AsStr(inp[m].c[c])) \notin TruthyTexts
            /\ \A i, j \in 1..Len(norm) : i < j => norm[i].idx < norm[j].idx

\* C10: a second run on the persisted artifact of a run's accepted output removes
\* no row by flag filtering and none by deduplication, accepts as many records
\* as the first run did, and rejects none.
C10_RerunIsFixedPoint ==
    \A i, j \in Completed :
        (i < j /\ history[j].file_path = history[i].resp.result.cleaned_fname)
        => /\ Len(history[j].p.loaded.rows) = history[i].resp.result.num_cleaned_rows
           /\ Len(history[j].p.normalized.rows) = Len(history[j].p.loaded.rows)
           /\ Len(history[j].p.deduped.rows) = Len(history[j].p.normalized.rows)
           /\ history[j].resp.result.num_cleaned_rows
                  = history[i].resp.result.num_cleaned_rows
           /\ history[j].resp.result.num_filtered_rows = 0

(***************************************************************************)
(* Properties of the artifacts' lifecycle.                                 *)
(***************************************************************************)
Age(f, now) == now - written[f].mtime

\* what the latest download requests returned, and what is left on disk
C6_Served ==
    /\ \A k \in 1..Len(downloads) :
           LET d == downloads[k]
           IN  IF Age(d.filename, d.now) <= FILE_LIFETIME_SECONDS
               THEN d.kind = "file" /\ d.body = written[d.filename].content
               ELSE d.kind = "notfound"
    /\ \A f \in DOMAIN files : files[f] = written[f]
    /\ \A f \in DOMAIN written \ DOMAIN files : Age(f, clock) > FILE_LIFETIME_SECONDS

\* a step that deletes an artifact is a download request, and the artifact's
\* age exceeds the lifetime
C6_Deletes ==
    \A f \in DOMAIN files :
        f \notin DOMAIN files' =>
            /\ Age(f, clock) > FILE_LIFETIME_SECONDS
            /\ downloads' # downloads
            /\ history' = history

C7_NoRequestFails ==
    \A p \in 1..NReq : reqs[p].pc = "done" => reqs[p].outcome \in {"file", "notfound"}

(***************************************************************************)
(* Properties of a failed request and of the loader.                       *)
(***************************************************************************)
\* the fetch failed, or every decoder raised, or a required column is missing
LoadOrValidationFails(h) ==
    \/ h.fetched.status # "ok"
    \/ /\ ~read_excel(h.fetched).ok
       /\ ~read_csv(h.fetched, "utf-8").ok
       /\ ~read_csv(h.fetched, "ISO-8859-1").ok
    \/ \E c \in required_cols : c \notin h.p.loaded.cols

C8_ErrorPayload ==
    \A k \in 1..Len(history) :
        LoadOrValidationFails(history[k]) =>
            /\ history[k].resp.kind = "error"
            /\ history[k].resp.file_path = history[k].file_path
            /\ history[k].resp.exception.type # ""
            /\ history[k].resp.exception.what # ""
            /\ history[k].resp.result = EmptyResult
            /\ history[k].p.normalized = EmptyDF
            /\ history[k].p.cleaned = EmptyDF

C8_NothingWritten ==
    (/\ Len(history') = Len(history) + 1
     /\ LoadOrValidationFails(history'[Len(history')]))
    => /\ written' = written
       /\ uuids' = uuids
       /\ files' = files

\* C8: when loading fails or a required column is missing, /run is aborted before
\* any cleaning: it returns (does not crash) an error payload with the input
\* location and a diagnostic, without records or artifact handles, and the
\* scratch directory is left as it was.
C8_FailedRequestAborts == []C8_ErrorPayload /\ [][C8_NothingWritten]_vars

\* a failed request served while the scratch directory holds artifacts
C8_Witness ==
    \E k \in 1..Len(history) :
        /\ LoadOrValidationFails(history[k])
        /\ history[k].resp.kind = "error"
        /\ k > 1
        /\ DOMAIN files # {}

\* C9: load_file tries spreadsheet, UTF-8, Latin-1 in that order on the fetched
\* bytes: a decoder is attempted only if every one before it raised, the result
\* is the table of the first that does not raise, nothing is attempted after it,
\* and if all three raise the error names the source location.
C9_DecoderOrder ==
    \A k \in 1..Len(history) :
        LET h == history[k]
            x == read_excel(h.fetched)
            u == read_csv(h.fetched, "utf-8")
            l == read_csv(h.fetched, "ISO-8859-1")
            log == h.p.log
        IN  h.fetched.status = "ok" =>
                /\ Len(log) >= 1 /\ Len(log) <= 3
                /\ log[1] = IF x.ok THEN "excel ok" ELSE "excel failed"
                /\ (Len(log) >= 2) = ~x.ok
                /\ Len(log) >= 2 => log[2] = IF u.ok THEN "utf-8 ok" ELSE "utf-8 failed"
                /\ (Len(log) >= 3) = (~x.ok /\ ~u.ok)
                /\ Len(log) >= 3 =>
                       log[3] = IF l.ok THEN "ISO-8859-1 ok" ELSE "ISO-8859-1 failed"
                /\ IF x.ok THEN h.p.loaded = x.df
                   ELSE IF u.ok THEN h.p.loaded = u.df
                   ELSE IF l.ok THEN h.p.loaded = l.df
                   ELSE /\ h.p.raised
                        /\ h.p.exc.type = "ValueError"
                        /\ h.p.exc.url = h.file_path
                        /\ h.file_path # NoUrl

\* bytes that only the third decoder reads, loaded as Latin-1
C9_Witness ==
    \E k \in 1..Len(history) :
        /\ history[k].p.log = <<"excel failed", "utf-8 failed", "ISO-8859-1 ok">>
        /\ \E i \in 1..Len(history[k].p.loaded.rows) :
               history[k].p.loaded.rows[i].c["Description"] = Str(<<"e_acute">>)

====
